---- MODULE Spec2Model ----
(***************************************************************************)
(* A model of scripts/collect_results.py: the collection of Eco-CI energy  *)
(* measurements from a remote CI service into one CSV file.                *)
(*                                                                         *)
(* Representation of Python values                                         *)
(*   - a dict is a function whose DOMAIN is the set of its keys; d.get(k,  *)
(*     default) is Get(d, k, default);                                     *)
(*   - a list is a sequence;                                               *)
(*   - a string the program inspects (branch name, workflow path, artifact *)
(*     name, archive member name) is a sequence of tokens, each token a    *)
(*     fixed run of characters, so that startswith, endswith, split, "in"  *)
(*     and slicing are computed on it; a string the program only copies    *)
(*     (stage label, timestamp, workflow display name) is a TLA+ string;   *)
(*   - a float is an integer (0 stands for 0.0).                           *)
(*                                                                         *)
(* The remote service is the environment: every response is chosen from a  *)
(* set of responses.  A process that ends, by sys.exit, by the end of main *)
(* or by an exception nothing catches, is at pc = "exited" with its exit   *)
(* status in status.  Each "faulty variant" below is a definition with one *)
(* plausible slip, kept next to the definition it is a variant of; the     *)
(* properties are shown to fail when the variant takes its place.          *)
(***************************************************************************)
EXTENDS Integers, Sequences, FiniteSets, TLC

VARIABLES
    token,      \* GITHUB_TOKEN is set (line 32)
    repo,       \* GITHUB_REPO is set (line 33)
    pc,         \* the program's position
    status,     \* the exit status of the process, meaningful when pc = "exited"
    now,        \* the wall clock, in seconds
    page,       \* paginate: the local page
    results,    \* paginate: the local results
    returned,   \* the value the last call of api_get returned (the callers' data)
    requests,   \* history: the requests sent to the remote service, each with the
                \* time it was sent at, the response it got and the time slept on it
    runs,       \* main: the local runs
    ri,         \* main: the index in runs of the run of the current loop iteration
    eco,        \* main: the local eco_artifacts of the current run
    ai,         \* main: the index in eco of the artifact of the current iteration
    all_rows,   \* main: the accumulator
    extracted,  \* history: what parse_eco_ci_json returned, per download, in order
    file,       \* the content of results/raw_data.csv
    arg,        \* the argument of the pure function under check
    ret         \* its result

vars == <<token, repo, pc, status, now, page, results, returned, requests,
          runs, ri, eco, ai, all_rows, extracted, file, arg, ret>>

(***************************************************************************)
(* Python built-ins                                                        *)
(***************************************************************************)
Get(d, k, default) == IF k \in DOMAIN d THEN d[k] ELSE default

EmptyDict == [k \in {} |-> 0]

StartsWith(s, p) == Len(p) <= Len(s) /\ SubSeq(s, 1, Len(p)) = p

EndsWith(s, p) == Len(p) <= Len(s) /\ SubSeq(s, Len(s) - Len(p) + 1, Len(s)) = p

Contains(s, p) == \E i \in 0..(Len(s) - Len(p)) : SubSeq(s, i + 1, i + Len(p)) = p

SetMax(S) == CHOOSE x \in S : \A y \in S : y <= x

Max(a, b) == IF a >= b THEN a ELSE b

\* s.split(sep): the parts of s between the occurrences of the token sep
RECURSIVE Split(_, _)
Split(s, sep) ==
    LET idx == {i \in 1..Len(s) : s[i] = sep}
    IN  IF idx = {} THEN <<s>>
        ELSE LET last == SetMax(idx)
             IN  Append(Split(SubSeq(s, 1, last - 1), sep), SubSeq(s, last + 1, Len(s)))

\* s.lower(), token by token
LowerToken(t) ==
    CASE t = "ECO" -> "eco"
      [] t = "Eco" -> "eco"
      [] t = "CI"  -> "ci"
      [] OTHER     -> t

Lower(s) == [i \in 1..Len(s) |-> LowerToken(s[i])]

(***************************************************************************)
(* Configuration (lines 36-64)                                             *)
(***************************************************************************)
WORKFLOW_CONFIG_MAP ==
    << [key |-> <<"tests", ".yml">>,           label |-> "C1"],
       [key |-> <<"code-style", ".yml">>,      label |-> "C1"],
       [key |-> <<"coverage", ".yml">>,        label |-> "C1"],
       [key |-> <<"ci-consolidated", ".yml">>, label |-> "C3"] >>

BRANCH_CONFIG_MAP ==
    << [prefix |-> <<"experiment", "/", "c1-baseline">>,      label |-> "C1"],
       [prefix |-> <<"experiment", "/", "c2-pip-cache">>,     label |-> "C2"],
       [prefix |-> <<"experiment", "/", "c3-consolidation">>, label |-> "C3"],
       [prefix |-> <<"experiment", "/", "c4-combined">>,      label |-> "C4"] >>

CSV_COLUMNS ==
    <<"run_id", "config", "workflow", "branch", "stage", "energy_joules",
      "duration_seconds", "timestamp", "python_version">>

PER_PAGE == 100

MIN_WAIT == 10

DEFAULT_RESET == 60

(***************************************************************************)
(* infer_config (lines 191-198)                                            *)
(***************************************************************************)
\* the loop of lines 194-196 from rule i on; "" when no rule matches
RECURSIVE BranchLabelFrom(_, _)
BranchLabelFrom(branch, i) ==
    IF i > Len(BRANCH_CONFIG_MAP) THEN ""
    ELSE IF branch = BRANCH_CONFIG_MAP[i].prefix
             \/ StartsWith(branch, BRANCH_CONFIG_MAP[i].prefix)
         THEN BRANCH_CONFIG_MAP[i].label
         ELSE BranchLabelFrom(branch, i + 1)

\* WORKFLOW_CONFIG_MAP.get(workflow_file, "unknown")
WorkflowLabel(workflow_file) ==
    LET hit == {i \in 1..Len(WORKFLOW_CONFIG_MAP) : WORKFLOW_CONFIG_MAP[i].key = workflow_file}
    IN  IF hit = {} THEN "unknown" ELSE WORKFLOW_CONFIG_MAP[CHOOSE i \in hit : TRUE].label

\* a faulty variant: the workflow table is consulted before the branch rules
infer_config_workflow_first(run) ==
    LET parts == Split(Get(run, "path", <<>>), "/")
        byFile == WorkflowLabel(parts[Len(parts)])
    IN  IF byFile # "unknown" THEN byFile
        ELSE LET byBranch == BranchLabelFrom(Get(run, "head_branch", <<>>), 1)
             IN  IF byBranch # "" THEN byBranch ELSE "unknown"

infer_config(run) ==
    LET branch == Get(run, "head_branch", <<>>)
        byBranch == BranchLabelFrom(branch, 1)
    IN  IF byBranch # "" THEN byBranch
        ELSE LET parts == Split(Get(run, "path", <<>>), "/")
                 workflow_file == parts[Len(parts)]
             IN  WorkflowLabel(workflow_file)

(***************************************************************************)
(* infer_python_version (lines 201-206)                                    *)
(***************************************************************************)
RECURSIVE FirstPyPart(_)
FirstPyPart(parts) ==
    IF parts = <<>> THEN <<>>
    ELSE IF StartsWith(Head(parts), <<"py">>) THEN Tail(Head(parts))
         ELSE FirstPyPart(Tail(parts))

infer_python_version(artifact_name) == FirstPyPart(Split(artifact_name, "-"))

(***************************************************************************)
(* parse_eco_ci_json (lines 146-188)                                       *)
(*                                                                         *)
(* raw_bytes is [zip |-> whether the bytes are a zip archive, members |->  *)
(* the archive's members in namelist() order]; a member is [name, content] *)
(* and its content is what json.load makes of it:                          *)
(*   [kind |-> "invalid"]              the text is not JSON                *)
(*   [kind |-> "list", value |-> s]    a JSON array                        *)
(*   [kind |-> "dict", value |-> d]    a JSON object                       *)
(*   [kind |-> "other"]                a JSON number, string, bool or null *)
(***************************************************************************)
\* a faulty variant: the cpu reading is preferred to the total reading
MeasurementRowCpuFirst(m) ==
    [ stage            |-> Get(m, "label", "unknown"),
      energy_joules    |-> Get(m, "cpu_energy_J", Get(m, "total_energy_J", 0)),
      duration_seconds |-> Get(m, "duration", 0),
      timestamp        |-> Get(m, "time", "") ]

\* lines 178-183
MeasurementRow(m) ==
    [ stage            |-> Get(m, "label", "unknown"),
      energy_joules    |-> Get(m, "total_energy_J", Get(m, "cpu_energy_J", 0)),
      duration_seconds |-> Get(m, "duration", 0),
      timestamp        |-> Get(m, "time", "") ]

\* lines 170-175; the "continue" of line 175 adds no measurement
Measurements(data) ==
    CASE data.kind = "list" -> data.value
      [] data.kind = "dict" -> Get(data.value, "measurements", <<data.value>>)
      [] OTHER              -> <<>>

\* the loop of lines 166-183 over the remaining json_files; a JSONDecodeError
\* (line 168) leaves the loop for line 186 and line 188 returns rows as it is
RECURSIVE ParseFiles(_, _)
ParseFiles(json_files, rows) ==
    IF json_files = <<>> THEN rows
    ELSE LET data == Head(json_files).content
         IN  IF data.kind = "invalid" THEN rows
             ELSE LET measurements == Measurements(data)
                  IN  ParseFiles(Tail(json_files),
                                 rows \o [i \in 1..Len(measurements) |->
                                             MeasurementRow(measurements[i])])

parse_eco_ci_json(raw_bytes) ==
    IF ~raw_bytes.zip THEN <<>>
    ELSE LET json_files == SelectSeq(raw_bytes.members,
                                     LAMBDA n : EndsWith(n.name, <<".json">>))
         IN  IF json_files = <<>> THEN <<>> ELSE ParseFiles(json_files, <<>>)

(***************************************************************************)
(* Bounds and the values the environment is drawn from                     *)
(***************************************************************************)
MaxRateLimited == 2   \* the rate-limit responses the service gives in one execution

MaxPages == 2         \* SpecPaginate: the full pages the service returns

MaxMembers == 2       \* SpecParse: the members of an archive

NoFile == [exists |-> FALSE, lines |-> <<>>]

\* results/raw_data.csv as an earlier execution left it
StaleFile == [exists |-> TRUE, lines |-> << <<"stale">> >>]

RunC2 ==
    [ id |-> 11, name |-> "Tests",
      head_branch |-> <<"experiment", "/", "c2-pip-cache", "-v2">>,
      path |-> <<".github", "/", "workflows", "/", "tests", ".yml">> ]

RunC3 ==
    [ id |-> 12,
      path |-> <<".github", "/", "workflows", "/", "ci-consolidated", ".yml">> ]

\* Spec: the bodies of the responses to the run listing
RunBodies ==
    { EmptyDict,
      [workflow_runs |-> <<>>],
      [workflow_runs |-> <<RunC3>>],
      [workflow_runs |-> <<RunC2, RunC3>>] }

EcoPy   == [name |-> <<"eco", "-", "ci", "-", "results", "-", "py", "3.11">>,
            archive_download_url |-> "u1"]

EcoCaps == [name |-> <<"Results", "-", "ECO", "-", "CI">>, archive_download_url |-> "u2"]

EcoNoUrl == [name |-> <<"eco", "-", "ci">>]

Logs    == [name |-> <<"logs", "-", "py", "3.12">>, archive_download_url |-> "u3"]

ArtifactBodies ==
    { EmptyDict,
      [artifacts |-> <<Logs>>],
      [artifacts |-> <<EcoNoUrl, EcoPy, Logs, EcoCaps>>] }

M_full  == [label |-> "a", total_energy_J |-> 1, cpu_energy_J |-> 9, duration |-> 2, time |-> "t1"]

M_cpu   == [label |-> "b", cpu_energy_J |-> 3]

JsonName == <<"eco-ci-results", ".json">>

BadZip == [zip |-> FALSE, members |-> <<>>]

\* Spec: the contents of the downloads
MainArchives ==
    { BadZip,
      [zip |-> TRUE, members |->
          << [name |-> JsonName, content |-> [kind |-> "list", value |-> <<M_full, M_cpu>>]] >>] }

ErrorStatuses == {404, 500}

RateLimitStatuses == {429, 403}

\* the rate-limit responses the service may give at time t
RateLimitResponses(t) ==
    { [status |-> 429, headers |-> EmptyDict, body |-> EmptyDict],
      [status |-> 403, headers |-> ("X-RateLimit-Reset" :> (t + 30)), body |-> EmptyDict],
      [status |-> 403, headers |-> ("X-RateLimit-Reset" :> (t - 20)), body |-> EmptyDict] }

ErrorResponses == {[status |-> s, headers |-> EmptyDict, body |-> EmptyDict] : s \in ErrorStatuses}

OkResponse(body) == [status |-> 200, headers |-> EmptyDict, body |-> body]

\* the rate-limit responses received so far
RateLimited ==
    Cardinality({k \in 1..Len(requests) :
                    requests[k].kind # "download" /\ requests[k].status \in RateLimitStatuses})

(***************************************************************************)
(* get_headers (lines 70-81) and api_get (lines 84-95)                     *)
(***************************************************************************)
\* a faulty variant: the repository identifier is not looked at
get_headers_token_only == token

\* get_headers returns (does not exit)
get_headers == token /\ repo

\* a faulty variant: the interval is not raised to the minimum
api_get_no_minimum(resp, t) ==
    IF resp.status = 429 \/ resp.status = 403
    THEN [do |-> "retry",
          wait |-> Max(Get(resp.headers, "X-RateLimit-Reset", t + DEFAULT_RESET) - t, 0)]
    ELSE IF resp.status >= 400 THEN [do |-> "raise"]
         ELSE [do |-> "return", value |-> resp.body]

\* a faulty variant: raise_for_status is left out
api_get_no_raise(resp, t) ==
    IF resp.status = 429 \/ resp.status = 403
    THEN [do |-> "retry",
          wait |-> Max(Get(resp.headers, "X-RateLimit-Reset", t + DEFAULT_RESET) - t, MIN_WAIT)]
    ELSE [do |-> "return", value |-> resp.body]

\* what api_get does with the response resp received at time t: sleep wait
\* seconds and call itself with the same arguments (lines 88-93), raise
\* (line 94) or return the body (line 95)
api_get(resp, t) ==
    IF resp.status = 429 \/ resp.status = 403
    THEN LET reset == Get(resp.headers, "X-RateLimit-Reset", t + DEFAULT_RESET)
             wait  == Max(reset - t, MIN_WAIT)
         IN  [do |-> "retry", wait |-> wait]
    ELSE IF resp.status >= 400 THEN [do |-> "raise"]
         ELSE [do |-> "return", value |-> resp.body]

\* the entry of the history for one request
Sent(kind, what, resp, slept) ==
    [kind |-> kind, what |-> what, at |-> now, status |-> resp.status,
     headers |-> resp.headers, body |-> resp.body, slept |-> slept]

\* the responses the service may give to a listing request, given the bodies
\* it may send with a 200
ListingResponses(bodies) ==
    {OkResponse(b) : b \in bodies} \cup ErrorResponses
        \cup (IF RateLimited < MaxRateLimited THEN RateLimitResponses(now) ELSE {})

DownloadFailures == {403}

DownloadResponses ==
    {[status |-> 200, content |-> a] : a \in MainArchives}
        \cup {[status |-> s, content |-> BadZip] : s \in DownloadFailures}

(***************************************************************************)
(* main (lines 212-265) and what it calls                                  *)
(***************************************************************************)
Init ==
    /\ token \in BOOLEAN
    /\ repo \in BOOLEAN
    /\ pc = "main"
    /\ status = 0
    /\ now = 0
    /\ page = 0
    /\ results = <<>>
    /\ returned = EmptyDict
    /\ requests = <<>>
    /\ runs = <<>>
    /\ ri = 0
    /\ eco = <<>>
    /\ ai = 0
    /\ all_rows = <<>>
    /\ extracted = <<>>
    /\ file \in {NoFile, StaleFile}
    /\ arg = EmptyDict
    /\ ret = <<>>

\* lines 213-216, 118-121, 100-103: main calls list_workflow_runs, which calls
\* paginate, which sets page to 1
main_start ==
    /\ pc = "main"
    /\ pc' = "paginate"
    /\ page' = 1
    /\ results' = <<>>
    /\ UNCHANGED <<token, repo, status, now, returned, requests, runs, ri, eco, ai,
                   all_rows, extracted, file, arg, ret>>

\* lines 71-76: sys.exit(1), at the first call of get_headers
get_headers_exit ==
    /\ pc \in {"paginate", "list_artifacts", "download"}
    /\ ~get_headers
    /\ pc' = "exited"
    /\ status' = 1
    /\ UNCHANGED <<token, repo, now, page, results, returned, requests, runs, ri, eco,
                   ai, all_rows, extracted, file, arg, ret>>

\* an exception no handler catches ends the process with a traceback, status 1
Uncaught ==
    /\ pc' = "exited"
    /\ status' = 1

\* line 219: the for loop takes run i of rs, or ends (line 256)
EnterRun(rs, i) ==
    IF i <= Len(rs) THEN pc' = "list_artifacts" /\ ri' = i
    ELSE pc' = "report" /\ ri' = i

\* a faulty variant: a page of exactly 100 items ends the loop as well
LastPageOffByOne(items) == Len(items) <= PER_PAGE

\* line 109
LastPage(items) == Len(items) < PER_PAGE

\* paginate's call of api_get (line 106) is answered by a rate limit
paginate_retry(resp) ==
    /\ pc = "paginate"
    /\ get_headers
    /\ api_get(resp, now).do = "retry"
    /\ requests' = Append(requests, Sent("runs", page, resp, api_get(resp, now).wait))
    /\ now' = now + api_get(resp, now).wait
    /\ UNCHANGED <<token, repo, pc, status, page, results, returned, runs, ri, eco, ai,
                   all_rows, extracted, file, arg, ret>>

\* paginate's call of api_get raises (line 94)
paginate_raise(resp) ==
    /\ pc = "paginate"
    /\ get_headers
    /\ api_get(resp, now).do = "raise"
    /\ requests' = Append(requests, Sent("runs", page, resp, 0))
    /\ Uncaught
    /\ UNCHANGED <<token, repo, now, page, results, returned, runs, ri, eco, ai,
                   all_rows, extracted, file, arg, ret>>

\* paginate's call of api_get returns a page (lines 106-112, 122-123, 216-219)
paginate_page(resp) ==
    /\ pc = "paginate"
    /\ get_headers
    /\ api_get(resp, now).do = "return"
    /\ requests' = Append(requests, Sent("runs", page, resp, 0))
    /\ returned' = api_get(resp, now).value
    /\ LET items == Get(returned', "workflow_runs", <<>>)
       IN  /\ results' = results \o items
           /\ IF LastPage(items)
              THEN /\ runs' = results'
                   /\ page' = page
                   /\ EnterRun(runs', 1)
              ELSE /\ page' = page + 1
                   /\ UNCHANGED <<pc, runs, ri>>
    /\ UNCHANGED <<token, repo, status, now, eco, ai, all_rows, extracted, file, arg, ret>>

\* line 228: "eco-ci" in a["name"].lower()
IsEco(a) == Contains(Lower(a["name"]), <<"eco", "-", "ci">>)

\* list_artifacts' call of api_get (line 129) is answered by a rate limit
artifacts_retry(resp) ==
    /\ pc = "list_artifacts"
    /\ get_headers
    /\ api_get(resp, now).do = "retry"
    /\ requests' = Append(requests, Sent("artifacts", ri, resp, api_get(resp, now).wait))
    /\ now' = now + api_get(resp, now).wait
    /\ UNCHANGED <<token, repo, pc, status, page, results, returned, runs, ri, eco, ai,
                   all_rows, extracted, file, arg, ret>>

\* list_artifacts' call of api_get raises (line 94)
artifacts_raise(resp) ==
    /\ pc = "list_artifacts"
    /\ get_headers
    /\ api_get(resp, now).do = "raise"
    /\ requests' = Append(requests, Sent("artifacts", ri, resp, 0))
    /\ Uncaught
    /\ UNCHANGED <<token, repo, now, page, results, returned, runs, ri, eco, ai,
                   all_rows, extracted, file, arg, ret>>

\* list_artifacts returns (lines 129-130) and main filters the artifacts
\* (lines 227-234): with none left it goes on with the next run
artifacts_listed(resp) ==
    /\ pc = "list_artifacts"
    /\ get_headers
    /\ api_get(resp, now).do = "return"
    /\ requests' = Append(requests, Sent("artifacts", ri, resp, 0))
    /\ returned' = api_get(resp, now).value
    /\ LET artifacts == Get(returned', "artifacts", <<>>)
           eco_artifacts == SelectSeq(artifacts, IsEco)
       IN  /\ eco' = eco_artifacts
           /\ IF eco_artifacts = <<>>
              THEN ai' = 0 /\ EnterRun(runs, ri + 1)
              ELSE ai' = 1 /\ pc' = "download" /\ ri' = ri
    /\ UNCHANGED <<token, repo, status, now, page, results, runs, all_rows, extracted,
                   file, arg, ret>>

\* line 234: the inner for loop takes artifact j of eco, or ends and the outer
\* loop goes on
EnterArtifact(j) ==
    IF j <= Len(eco) THEN pc' = "download" /\ ai' = j /\ ri' = ri
    ELSE ai' = j /\ EnterRun(runs, ri + 1)

\* lines 135-137: whether download_artifact sends a request
HasUrl(artifact) == Get(artifact, "archive_download_url", "") # ""

\* a faulty variant: the rows carry the metadata of the first run
OutputRowOfFirstRun(run, artifact_name, row) ==
    [ run_id           |-> runs[1]["id"],
      config           |-> infer_config(runs[1]),
      workflow         |-> Get(runs[1], "name", "unknown"),
      branch           |-> Get(runs[1], "head_branch", <<"unknown">>),
      stage            |-> row["stage"],
      energy_joules    |-> row["energy_joules"],
      duration_seconds |-> row["duration_seconds"],
      timestamp        |-> row["timestamp"],
      python_version   |-> infer_python_version(artifact_name) ]

\* lines 220-223, 241, 244-254
OutputRow(run, artifact_name, row) ==
    [ run_id           |-> run["id"],
      config           |-> infer_config(run),
      workflow         |-> Get(run, "name", "unknown"),
      branch           |-> Get(run, "head_branch", <<"unknown">>),
      stage            |-> row["stage"],
      energy_joules    |-> row["energy_joules"],
      duration_seconds |-> row["duration_seconds"],
      timestamp        |-> row["timestamp"],
      python_version   |-> infer_python_version(artifact_name) ]

\* lines 135-137, 236-238: the artifact has no download URL; nothing is sent
download_skipped ==
    /\ pc = "download"
    /\ ~HasUrl(eco[ai])
    /\ EnterArtifact(ai + 1)
    /\ UNCHANGED <<token, repo, status, now, page, results, returned, requests, runs,
                   eco, all_rows, extracted, file, arg, ret>>

\* a faulty variant: a failed download ends the loop over the artifacts of the run
download_failed_breaks(resp) ==
    /\ pc = "download"
    /\ HasUrl(eco[ai])
    /\ get_headers
    /\ resp.status # 200
    /\ requests' = Append(requests,
                          [kind |-> "download", what |-> <<ri, ai>>, at |-> now,
                           status |-> resp.status, headers |-> EmptyDict,
                           body |-> EmptyDict, slept |-> 0])
    /\ ai' = ai
    /\ EnterRun(runs, ri + 1)
    /\ UNCHANGED <<token, repo, status, now, page, results, returned, runs, eco,
                   all_rows, extracted, file, arg, ret>>

\* lines 138-143, 236-238: the download is answered by another status than 200
download_failed(resp) ==
    /\ pc = "download"
    /\ HasUrl(eco[ai])
    /\ get_headers
    /\ resp.status # 200
    /\ requests' = Append(requests,
                          [kind |-> "download", what |-> <<ri, ai>>, at |-> now,
                           status |-> resp.status, headers |-> EmptyDict,
                           body |-> EmptyDict, slept |-> 0])
    /\ EnterArtifact(ai + 1)
    /\ UNCHANGED <<token, repo, status, now, page, results, returned, runs, eco,
                   all_rows, extracted, file, arg, ret>>

\* lines 138-141, 236-254: the download succeeds and its records become rows
download_parsed(resp) ==
    /\ pc = "download"
    /\ HasUrl(eco[ai])
    /\ get_headers
    /\ resp.status = 200
    /\ requests' = Append(requests,
                          [kind |-> "download", what |-> <<ri, ai>>, at |-> now,
                           status |-> resp.status, headers |-> EmptyDict,
                           body |-> EmptyDict, slept |-> 0])
    /\ LET rows == parse_eco_ci_json(resp.content)
       IN  /\ all_rows' = all_rows \o [k \in 1..Len(rows) |->
                                          OutputRow(runs[ri], eco[ai]["name"], rows[k])]
           /\ extracted' = Append(extracted, [run |-> ri, artifact |-> ai, rows |-> rows])
    /\ EnterArtifact(ai + 1)
    /\ UNCHANGED <<token, repo, status, now, page, results, returned, runs, eco,
                   file, arg, ret>>

\* csv.DictWriter.writerow: the values of the row in the order of the columns
CsvLine(row) == [c \in 1..Len(CSV_COLUMNS) |-> row[CSV_COLUMNS[c]]]

\* a faulty variant: rows are written although there are none (the header alone)
NothingCollectedNever(rows) == FALSE

\* line 256
NothingCollected(rows) == rows = <<>>

\* lines 256-258: sys.exit(0) with nothing written
no_data_exit ==
    /\ pc = "report"
    /\ NothingCollected(all_rows)
    /\ pc' = "exited"
    /\ status' = 0
    /\ UNCHANGED <<token, repo, now, page, results, returned, requests, runs, ri, eco,
                   ai, all_rows, extracted, file, arg, ret>>

\* lines 260-265: the file is opened for writing, then main returns
write_csv ==
    /\ pc = "report"
    /\ ~NothingCollected(all_rows)
    /\ file' = [exists |-> TRUE,
                lines  |-> <<CSV_COLUMNS>> \o [k \in 1..Len(all_rows) |-> CsvLine(all_rows[k])]]
    /\ pc' = "exited"
    /\ status' = 0
    /\ UNCHANGED <<token, repo, now, page, results, returned, requests, runs, ri, eco,
                   ai, all_rows, extracted, arg, ret>>

Next ==
    \/ main_start
    \/ get_headers_exit
    \/ \E resp \in ListingResponses(RunBodies) : paginate_retry(resp)
    \/ \E resp \in ListingResponses(RunBodies) : paginate_raise(resp)
    \/ \E resp \in ListingResponses(RunBodies) : paginate_page(resp)
    \/ \E resp \in ListingResponses(ArtifactBodies) : artifacts_retry(resp)
    \/ \E resp \in ListingResponses(ArtifactBodies) : artifacts_raise(resp)
    \/ \E resp \in ListingResponses(ArtifactBodies) : artifacts_listed(resp)
    \/ download_skipped
    \/ \E resp \in DownloadResponses : download_failed(resp)
    \/ \E resp \in DownloadResponses : download_parsed(resp)
    \/ no_data_exit
    \/ write_csv

Spec == Init /\ [][Next]_vars

(***************************************************************************)
(* SpecPaginate: list_workflow_runs alone, against a service that returns  *)
(* full pages                                                              *)
(***************************************************************************)
IdsFrom(base, n) == [k \in 1..n |-> [id |-> base + k]]

FullPages == {IdsFrom(0, PER_PAGE), IdsFrom(500, PER_PAGE), IdsFrom(700, PER_PAGE + 1)}

ShortPages == {<<>>, IdsFrom(300, 1), IdsFrom(900, PER_PAGE - 1)}

\* the service returns at most MaxPages pages that are not short
PageBodies ==
    {EmptyDict} \cup {[workflow_runs |-> s] : s \in ShortPages}
        \cup (IF page <= MaxPages THEN {[workflow_runs |-> s] : s \in FullPages} ELSE {})

InitPaginate == Init /\ token /\ repo /\ file = NoFile

NextPaginate ==
    \/ main_start
    \/ \E resp \in ListingResponses(PageBodies) : paginate_retry(resp)
    \/ \E resp \in ListingResponses(PageBodies) : paginate_raise(resp)
    \/ \E resp \in ListingResponses(PageBodies) : paginate_page(resp)

SpecPaginate == InitPaginate /\ [][NextPaginate]_vars

(***************************************************************************)
(* SpecParse: parse_eco_ci_json applied to an archive                      *)
(***************************************************************************)
M_empty == EmptyDict

MeasLists ==
    { <<>>, <<M_empty>>, <<M_full>>, <<M_cpu>>, <<M_full, M_cpu>>,
      <<M_cpu, M_empty, M_full>> }

Payloads ==
    {[kind |-> "list", value |-> l] : l \in MeasLists}
        \cup {[kind |-> "dict", value |-> [measurements |-> l]] : l \in MeasLists}
        \cup {[kind |-> "dict", value |-> m] : m \in {M_empty, M_full, M_cpu}}
        \cup {[kind |-> "other"], [kind |-> "invalid"]}

Members ==
    {[name |-> JsonName, content |-> c] : c \in Payloads}
        \cup { [name |-> <<"notes", ".txt">>, content |-> [kind |-> "invalid"]],
               [name |-> <<".json", ".bak">>,
                content |-> [kind |-> "list", value |-> <<M_full>>]] }

RECURSIVE SeqsUpTo(_, _)
SeqsUpTo(S, n) ==
    IF n = 0 THEN {<<>>}
    ELSE LET shorter == SeqsUpTo(S, n - 1)
         IN  shorter \cup {Append(q, x) : q \in shorter, x \in S}

Archives == {BadZip} \cup {[zip |-> TRUE, members |-> ms] : ms \in SeqsUpTo(Members, MaxMembers)}

Idle ==
    /\ token = TRUE
    /\ repo = TRUE
    /\ status = 0
    /\ now = 0
    /\ page = 0
    /\ results = <<>>
    /\ returned = EmptyDict
    /\ requests = <<>>
    /\ runs = <<>>
    /\ ri = 0
    /\ eco = <<>>
    /\ ai = 0
    /\ all_rows = <<>>
    /\ extracted = <<>>
    /\ file = NoFile

InitParse ==
    /\ Idle
    /\ pc = "parse"
    /\ arg \in Archives
    /\ ret = <<>>

parse_call ==
    /\ pc = "parse"
    /\ ret' = parse_eco_ci_json(arg)
    /\ pc' = "parsed"
    /\ UNCHANGED <<token, repo, status, now, page, results, returned, requests, runs,
                   ri, eco, ai, all_rows, extracted, file, arg>>

NextParse == parse_call

SpecParse == InitParse /\ [][NextParse]_vars

(***************************************************************************)
(* SpecInfer: infer_config applied to a run                                *)
(***************************************************************************)
Branches ==
    { <<"experiment", "/", "c1-base", "line">>,
      <<"experiment", "/", "c1-base">>,
      <<"experiment", "/", "c2-pip-cache", "-v2">>,
      <<"experiment", "/", "c3-consolidation", "/", "x">>,
      <<"experiment", "/", "c4-combined">>,
      <<"fix", "/", "experiment", "/", "c4-combined">>,
      <<"experiment", "/">>,
      <<"main">>,
      <<>> }

Paths ==
    { <<".github", "/", "workflows", "/", "tests", ".yml">>,
      <<"tests", ".yml">>,
      <<".github", "/", "workflows", "/", "code-style", ".yml">>,
      <<".github", "/", "workflows", "/", "coverage", ".yml">>,
      <<".github", "/", "workflows", "/", "ci-consolidated", ".yml">>,
      <<".github", "/", "workflows", "/", "my", "tests", ".yml">>,
      <<"tests", ".yml", "/", "build", ".yml">>,
      <<"tests", ".yml", "/">>,
      <<>> }

InferRuns ==
    {[id |-> 1, head_branch |-> b, path |-> f] : b \in Branches, f \in Paths}
        \cup {[id |-> 1, head_branch |-> b] : b \in Branches}
        \cup {[id |-> 1, path |-> f] : f \in Paths}
        \cup {[id |-> 1]}

InitInfer ==
    /\ Idle
    /\ pc = "infer"
    /\ arg \in InferRuns
    /\ ret = ""

infer_call ==
    /\ pc = "infer"
    /\ ret' = infer_config(arg)
    /\ pc' = "inferred"
    /\ UNCHANGED <<token, repo, status, now, page, results, returned, requests, runs,
                   ri, eco, ai, all_rows, extracted, file, arg>>

NextInfer == infer_call

SpecInfer == InitInfer /\ [][NextInfer]_vars

(***************************************************************************)
(* Vocabulary of the properties                                            *)
(***************************************************************************)
IsRateLimit(e) == e.kind # "download" /\ e.status \in RateLimitStatuses

IsError(e) == e.kind # "download" /\ e.status >= 400 /\ e.status \notin RateLimitStatuses

IsPage(e) == e.kind = "runs" /\ e.status = 200

PageItems(e) == IF "workflow_runs" \in DOMAIN e.body THEN e.body["workflow_runs"] ELSE <<>>

\* the items of the pages received so far, in the order received
RECURSIVE ItemsReceived(_)
ItemsReceived(log) ==
    IF log = <<>> THEN <<>>
    ELSE LET e == log[Len(log)]
             before == ItemsReceived(SubSeq(log, 1, Len(log) - 1))
         IN  IF IsPage(e) THEN before \o PageItems(e) ELSE before

\* the output file is as it was before the execution
Unwritten == file \in {NoFile, StaleFile}

\* main ran to its end (line 256 and after), rather than being aborted
Completed == pc = "exited" /\ ri = Len(runs) + 1

(***************************************************************************)
(* C1: paginate requests the pages 1, 2, 3, ... in this order, repeating a *)
(* page only to retry it after a rate limit and skipping none; it requests *)
(* nothing after the first page of fewer than 100 items, does not stop     *)
(* before such a page arrived, and returns the items of the pages it       *)
(* received, concatenated in the order received.                           *)
(***************************************************************************)
C1_Pagination ==
    /\ \A k \in 1..Len(requests) :
          requests[k].kind = "runs" =>
             /\ requests[k].what = 1 + Cardinality({j \in 1..(k - 1) : IsPage(requests[j])})
             /\ \A j \in 1..(k - 1) :
                   IsPage(requests[j]) => Len(PageItems(requests[j])) >= PER_PAGE
    /\ pc = "paginate" => results = ItemsReceived(requests)
    /\ pc \in {"list_artifacts", "download", "report"} =>
          /\ runs = ItemsReceived(requests)
          /\ \E k \in 1..Len(requests) :
                IsPage(requests[k]) /\ Len(PageItems(requests[k])) < PER_PAGE

\* two full pages, one of them retried, then a page of 99 items
C1_Witness ==
    /\ pc = "list_artifacts"
    /\ Len(runs) = 3 * PER_PAGE - 1
    /\ \E k \in 1..Len(requests) : IsRateLimit(requests[k]) /\ requests[k].what = 2

C3_MissingInput ==
    (~token \/ ~repo) =>
       /\ requests = <<>>
       /\ Unwritten
       /\ pc \in {"main", "paginate", "exited"}
       /\ pc = "exited" => status = 1

HasInvalidJson(raw) ==
    \E i \in 1..Len(raw.members) :
       EndsWith(raw.members[i].name, <<".json">>) /\ raw.members[i].content.kind = "invalid"

C4_EmptyOnMalformed ==
    (pc = "parsed" /\ (~arg.zip \/ HasInvalidJson(arg))) => ret = <<>>

(***************************************************************************)
(* C5: for a valid archive whose JSON members hold N measurement objects   *)
(* (the elements of a bare list, the elements of the "measurements" list   *)
(* of a mapping, or a mapping without that key counted as one),            *)
(* parse_eco_ci_json returns N records in the order of the payload, each   *)
(* with stage = label or "unknown", energy = the total reading if present, *)
(* else the cpu reading if present, else 0.0, duration = duration or 0.0,  *)
(* timestamp = time or "".                                                 *)
(***************************************************************************)
ObjectsOf(content) ==
    IF content.kind = "list" THEN content.value
    ELSE IF content.kind = "dict"
         THEN IF "measurements" \in DOMAIN content.value
              THEN content.value["measurements"]
              ELSE <<content.value>>
         ELSE <<>>

RECURSIVE ObjectsIn(_)
ObjectsIn(members) ==
    IF members = <<>> THEN <<>>
    ELSE LET m == members[Len(members)]
             before == ObjectsIn(SubSeq(members, 1, Len(members) - 1))
         IN  IF m.name[Len(m.name)] = ".json" THEN before \o ObjectsOf(m.content) ELSE before

C5_Extraction ==
    (pc = "parsed" /\ arg.zip /\ ~HasInvalidJson(arg)) =>
       LET objects == ObjectsIn(arg.members)
       IN  /\ Len(ret) = Len(objects)
           /\ \A i \in 1..Len(objects) :
                 LET m == objects[i]
                     has(k) == k \in DOMAIN m
                 IN  /\ ret[i].stage = IF has("label") THEN m["label"] ELSE "unknown"
                     /\ ret[i].energy_joules =
                           IF has("total_energy_J") THEN m["total_energy_J"]
                           ELSE IF has("cpu_energy_J") THEN m["cpu_energy_J"] ELSE 0
                     /\ ret[i].duration_seconds = IF has("duration") THEN m["duration"] ELSE 0
                     /\ ret[i].timestamp = IF has("time") THEN m["time"] ELSE ""

\* two JSON members, a list of two and a mapping of three, five records
C5_Witness ==
    /\ pc = "parsed"
    /\ arg.zip
    /\ Len(arg.members) = 2
    /\ ~HasInvalidJson(arg)
    /\ Len(ret) = 5
    /\ ret[1].energy_joules = 1
    /\ ret[4].stage = "unknown"

(***************************************************************************)
(* C6: when main runs to its end with no row collected, the program exits  *)
(* with status 0 and the output file is neither created nor modified;      *)
(* with rows collected, the file holds the header row and then one row per *)
(* collected row, in the order collected.                                  *)
(***************************************************************************)
C6_Output ==
    Completed =>
       IF all_rows = <<>>
       THEN status = 0 /\ Unwritten
       ELSE /\ file.exists
            /\ Len(file.lines) = Len(all_rows) + 1
            /\ file.lines[1] = CSV_COLUMNS
            /\ \A k \in 1..Len(all_rows) :
                  /\ Len(file.lines[k + 1]) = Len(CSV_COLUMNS)
                  /\ \A c \in 1..Len(CSV_COLUMNS) :
                        file.lines[k + 1][c] = all_rows[k][CSV_COLUMNS[c]]

\* two runs, an archive downloaded and parsed to no record, the file of an
\* earlier execution still there
C6_Witness ==
    /\ Completed
    /\ Len(runs) = 2
    /\ extracted # <<>>
    /\ all_rows = <<>>
    /\ status = 0
    /\ file = StaleFile

(***************************************************************************)
(* C7: at every point of the collection each row of the accumulator has    *)
(* the run_id, workflow name, branch and inferred configuration of the run *)
(* whose artifact it was extracted from, and the rows are, in order, the   *)
(* records extraction returned for the downloads that succeeded: one row   *)
(* per record, no row without a record.                                    *)
(***************************************************************************)
\* for each row, the download and the record in it that it comes from
RECURSIVE Origins(_)
Origins(x) ==
    IF x = 0 THEN <<>>
    ELSE Origins(x - 1) \o [k \in 1..Len(extracted[x].rows) |-> <<x, k>>]

Downloaded == SelectSeq(requests, LAMBDA e : e.kind = "download" /\ e.status = 200)

C7_Rows ==
    LET origins == Origins(Len(extracted))
    IN  /\ Len(Downloaded) = Len(extracted)
        /\ \A x \in 1..Len(extracted) :
              Downloaded[x].what = <<extracted[x].run, extracted[x].artifact>>
        /\ Len(all_rows) = Len(origins)
        /\ \A n \in 1..Len(origins) :
              LET run == runs[extracted[origins[n][1]].run]
                  rec == extracted[origins[n][1]].rows[origins[n][2]]
                  row == all_rows[n]
              IN  /\ row.run_id = run["id"]
                  /\ row.workflow = IF "name" \in DOMAIN run THEN run["name"] ELSE "unknown"
                  /\ row.branch = IF "head_branch" \in DOMAIN run
                                  THEN run["head_branch"] ELSE <<"unknown">>
                  /\ row.config = infer_config(run)
                  /\ row.stage = rec.stage
                  /\ row.energy_joules = rec.energy_joules
                  /\ row.duration_seconds = rec.duration_seconds
                  /\ row.timestamp = rec.timestamp

\* rows of two runs, from two of three downloads
C7_Witness ==
    /\ Len(extracted) = 3
    /\ Len(all_rows) = 4
    /\ all_rows[1].run_id = 11
    /\ all_rows[1].config = "C2"
    /\ all_rows[4].run_id = 12
    /\ all_rows[4].config = "C3"
    /\ all_rows[4].branch = <<"unknown">>

(***************************************************************************)
(* C8: a run without eco-marked artifacts and an eco-marked artifact whose *)
(* download is answered by another status than 200 add no row and leave    *)
(* the accumulated rows as they are; no download is requested twice; the   *)
(* collection goes on: when main has run to its end, the artifacts of      *)
(* every run were listed and every eco-marked artifact with a download     *)
(* reference was requested.                                                *)
(***************************************************************************)
EcoOf(body) ==
    SelectSeq(IF "artifacts" \in DOMAIN body THEN body["artifacts"] ELSE <<>>, IsEco)

C8_State ==
    /\ \A j, k \in 1..Len(requests) :
          (j < k /\ requests[j].kind = "download" /\ requests[k].kind = "download")
             => requests[j].what # requests[k].what
    /\ \A k \in 1..Len(requests) :
          (requests[k].kind = "download" /\ requests[k].status # 200) =>
             \A x \in 1..Len(extracted) :
                <<extracted[x].run, extracted[x].artifact>> # requests[k].what
    /\ Completed =>
          \A i \in 1..Len(runs) :
             \E k \in 1..Len(requests) :
                /\ requests[k].kind = "artifacts"
                /\ requests[k].what = i
                /\ requests[k].status = 200
                /\ \A j \in 1..Len(EcoOf(requests[k].body)) :
                      "archive_download_url" \in DOMAIN EcoOf(requests[k].body)[j] =>
                         \E d \in 1..Len(requests) :
                            requests[d].kind = "download" /\ requests[d].what = <<i, j>>

C8_Skipped ==
    /\ Len(requests') = Len(requests) + 1
    /\ LET e == requests'[Len(requests')]
       IN  \/ e.kind = "download" /\ e.status # 200
           \/ e.kind = "artifacts" /\ e.status = 200 /\ EcoOf(e.body) = <<>>

C8_SkipAndContinue ==
    /\ []C8_State
    /\ [][C8_Skipped => /\ all_rows' = all_rows
                        /\ extracted' = extracted
                        /\ pc' \in {"download", "list_artifacts", "report"}]_vars

\* the first run has no eco-marked artifact; the first download of the
\* second run fails and the next one yields rows
C8_Witness ==
    /\ Completed
    /\ Len(runs) = 2
    /\ all_rows # <<>>
    /\ \E k \in 1..Len(requests) :
          /\ requests[k].kind = "artifacts"
          /\ requests[k].what = 1
          /\ requests[k].status = 200
          /\ EcoOf(requests[k].body) = <<>>
    /\ \E k \in 1..(Len(requests) - 1) :
          /\ requests[k].kind = "download"
          /\ requests[k].what = <<2, 2>>
          /\ requests[k].status = 403
          /\ requests[k + 1].kind = "download"
          /\ requests[k + 1].what = <<2, 3>>
          /\ requests[k + 1].status = 200

(***************************************************************************)
(* C9: infer_config returns the label of the branch rule whose label the   *)
(* branch name equals or begins with, whatever the workflow file; when no  *)
(* branch rule applies, the label the table gives for the last segment of  *)
(* the workflow path; "unknown" when that has none either.                 *)
(***************************************************************************)
LastSegment(path) ==
    LET slashes == {i \in 1..Len(path) : path[i] = "/"}
    IN  IF slashes = {} THEN path ELSE SubSeq(path, SetMax(slashes) + 1, Len(path))

C10_FatalListing ==
    \A k \in 1..Len(requests) :
       IsError(requests[k]) =>
          /\ k = Len(requests)
          /\ pc = "exited"
          /\ status = 1
          /\ Unwritten

\* the artifact listing of the second run fails after the first run gave rows
C10_Witness ==
    /\ requests # <<>>
    /\ IsError(requests[Len(requests)])
    /\ requests[Len(requests)].kind = "artifacts"
    /\ requests[Len(requests)].what = 2
    /\ all_rows # <<>>
    /\ pc = "exited"

====
